---- MODULE Spec2Model ----
(***************************************************************************)
(* Model of the IoU library (namespace IOU, iou.h): intersection over      *)
(* union of two convex polygons.                                           *)
(*                                                                         *)
(* Coordinates are exact rationals (the C++ type is double): a rational is *)
(* a record [n, d] in lowest terms with d > 0; the record with d = 0 is    *)
(* what a division by zero produces (NaN, or an infinity).  Every coordinate the model reaches is a *)
(* rational with a small denominator, so a double comparison against the   *)
(* tolerance _ZERO_ decides the same way as the exact comparison here.     *)
(***************************************************************************)
EXTENDS Integers, Sequences, FiniteSets

VARIABLES Q1, C2, last

vars == <<Q1, C2, last>>

(***************************************************************************)
(* Rational arithmetic standing for double arithmetic.                     *)
(***************************************************************************)
Abs(i) == IF i < 0 THEN -i ELSE i

RECURSIVE Gcd(_, _)
Gcd(a, b) == IF b = 0 THEN a ELSE Gcd(b, a % b)

NaN == [n |-> 0, d |-> 0]

IsNaN(a) == a.d = 0

Rat(n, d) ==
    IF d = 0 THEN NaN
    ELSE LET g == Gcd(Abs(n), Abs(d))
             s == IF d < 0 THEN -1 ELSE 1
         IN  [n |-> s * (n \div g), d |-> s * (d \div g)]

R(i) == [n |-> i, d |-> 1]

RAdd(a, b) ==
    IF a.d = 1 /\ b.d = 1 THEN [n |-> a.n + b.n, d |-> 1]
    ELSE IF IsNaN(a) \/ IsNaN(b) THEN NaN
    ELSE Rat(a.n * b.d + b.n * a.d, a.d * b.d)
RNeg(a) == [n |-> -a.n, d |-> a.d]
RSub(a, b) == RAdd(a, RNeg(b))
RMul(a, b) ==
    IF a.d = 1 /\ b.d = 1 THEN [n |-> a.n * b.n, d |-> 1]
    ELSE IF IsNaN(a) \/ IsNaN(b) THEN NaN
    ELSE Rat(a.n * b.n, a.d * b.d)
RDiv(a, b) == IF IsNaN(a) \/ IsNaN(b) THEN NaN ELSE Rat(a.n * b.d, a.d * b.n)
RAbs(a) == [n |-> Abs(a.n), d |-> a.d]

\* a < b and a <= b on doubles: false as soon as one side is NaN.
RLt(a, b) == ~IsNaN(a) /\ ~IsNaN(b) /\ a.n * b.d < b.n * a.d
RLe(a, b) == ~IsNaN(a) /\ ~IsNaN(b) /\ a.n * b.d <= b.n * a.d

\* const double _ZERO_ = 1e-6, as 1 / ZeroDenom.
ZeroDenom == 1000000

_ZERO_ == [n |-> 1, d |-> ZeroDenom]

\* v <= _ZERO_, that is v.n * ZeroDenom <= v.d, computed without the product.
LeZero(v) == ~IsNaN(v) /\ v.n <= v.d \div _ZERO_.d
\* v > _ZERO_
GtZero(v) == ~IsNaN(v) /\ ~LeZero(v)
\* v < -_ZERO_
LtNegZero(v) == GtZero(RNeg(v))
\* abs(v) <= _ZERO_
AbsLeZero(v) == LeZero(RAbs(v))

(***************************************************************************)
(* enum WiseType, enum LocPosition.                                        *)
(***************************************************************************)
NoneWise == "NoneWise"
ClockWise == "ClockWise"
AntiClockWise == "AntiClockWise"
WiseType == {NoneWise, ClockWise, AntiClockWise}

OutSide == "OutSide"
OnLine == "OnLine"
InSide == "InSide"
LocPosition == {OutSide, OnLine, InSide}

(***************************************************************************)
(* struct Vec2<double> (typedef Point).                                    *)
(***************************************************************************)
Vec2(x, y) == [x |-> x, y |-> y]

\* Vec2::isZero
isZero(p) == AbsLeZero(p.x) /\ AbsLeZero(p.y)

\* Vec2::operator==
VecEqWrongAxis(p, q) == AbsLeZero(RSub(p.x, q.x))

VecEq(p, q) == AbsLeZero(RSub(p.x, q.x)) /\ AbsLeZero(RSub(p.y, q.y))

\* Vec2::operator+, operator-, operator/(T)
VecAdd(p, q) == Vec2(RAdd(p.x, q.x), RAdd(p.y, q.y))
VecSub(p, q) == Vec2(RSub(p.x, q.x), RSub(p.y, q.y))
VecDiv(p, t) == Vec2(RDiv(p.x, t), RDiv(p.y, t))
VecScale(p, t) == Vec2(RMul(p.x, t), RMul(p.y, t))

\* Vec2::dot, Vec2::cmul (operator^)
dotMinus(p, q) == RSub(RMul(p.x, q.x), RMul(p.y, q.y))

dot(p, q) == RAdd(RMul(p.x, q.x), RMul(p.y, q.y))

cmulSwapped(p, q) == RSub(RMul(p.y, q.x), RMul(p.x, q.y))

cmul(p, q) == RSub(RMul(p.x, q.y), RMul(p.y, q.x))

(***************************************************************************)
(* Vec2::angle and Vec2::theta.  acos is not rational: an angle phi in     *)
(* [0, pi] is carried on the scale 1 - cos phi / (|cos phi| + sin phi),    *)
(* which runs from 0 to 2 and grows with phi, so that comparing two        *)
(* angles compares their images; pi is 2 and 2 pi is 4 on this scale.      *)
(* norm() * r.norm() is 0 for a zero vector and the quotient is NaN.       *)
(* theta subtracts from 3.141592653 * 2, which is 4 on this scale; it is   *)
(* short of 2 pi by 1.2e-9, less than the difference between any two       *)
(* distinct angles the model reaches.                                      *)
(***************************************************************************)
angle(v, r) ==
    LET c == dot(v, r)
        s == RAbs(cmul(v, r))
        m == RAdd(RAbs(c), s)
    IN  IF m.n = 0 THEN NaN ELSE RSub(R(1), RDiv(c, m))

thetaNoReflect(v) ==
    LET ax == Vec2(R(1), R(0)) IN angle(v, ax)

theta(v) ==
    LET ax == Vec2(R(1), R(0))
        a == angle(v, ax)
    IN  IF RLt(R(0), cmul(v, ax)) THEN RSub(R(4), a) ELSE a

(***************************************************************************)
(* class Line: two end points p1, p2.                                      *)
(***************************************************************************)
Line(p1, p2) == [p1 |-> p1, p2 |-> p2]

\* Line::isOnLine: p is colinear with the end points and between them.
isOnLine(line, p) ==
    LET d == VecSub(line.p2, line.p1)
        w == VecSub(p, line.p1)
        t == dot(w, d)
    IN  AbsLeZero(cmul(d, w)) /\ RLe(R(0), t) /\ RLe(t, dot(d, d))

\* Line::intersection(line, bOnline): the crossing of the two carrier lines
\* and, in on, whether it lies on both segments; parallel lines do not cross.
intersection(a, b) ==
    LET a12 == VecSub(a.p2, a.p1)
        b12 == VecSub(b.p2, b.p1)
        det == cmul(a12, b12)
    IN  IF AbsLeZero(det)
        THEN [pt |-> Vec2(R(0), R(0)), on |-> FALSE]
        ELSE LET t == RDiv(cmul(VecSub(b.p1, a.p1), b12), det)
                 pt == VecAdd(a.p1, VecScale(a12, t))
             IN  [pt |-> pt, on |-> isOnLine(a, pt) /\ isOnLine(b, pt)]

(***************************************************************************)
(* typedef std::vector<Point> Vertexes: a sequence of points, closed from  *)
(* the last vertex back to the first.                                      *)
(***************************************************************************)
NextIdx(C, i) == (i % Len(C)) + 1

Edge(C, i) == Line(C[i], C[NextIdx(C, i)])

Reverse(C) == [i \in 1..Len(C) |-> C[Len(C) + 1 - i]]

\* Is p already in pts, by Vec2::operator==
Contains(pts, p) == \E i \in 1..Len(pts) : VecEq(pts[i], p)

RECURSIVE AppendNew(_, _, _)
AppendNew(pts, more, i) ==
    IF i > Len(more) THEN pts
    ELSE AppendNew(IF Contains(pts, more[i]) THEN pts ELSE Append(pts, more[i]),
                   more, i + 1)

\* pts followed by the points of more that are not in it yet.
Merge(pts, more) == AppendNew(pts, more, 1)

RECURSIVE ShoelaceFrom(_, _)
ShoelaceFrom(C, i) ==
    IF i > Len(C) THEN R(0)
    ELSE RAdd(cmul(C[i], C[NextIdx(C, i)]), ShoelaceFrom(C, i + 1))

\* The signed area: half the shoelace sum over the cyclic vertex pairs.
signedArea(C) == IF Len(C) < 3 THEN R(0) ELSE RDiv(ShoelaceFrom(C, 1), R(2))

\* areaEx
areaEx(C) == RAbs(signedArea(C))

\* whichWiseEx: an interior on the right of every edge is clockwise.
whichWiseEx(C) ==
    LET a == signedArea(C)
    IN  IF GtZero(a) THEN AntiClockWise
        ELSE IF LtNegZero(a) THEN ClockWise
        ELSE NoneWise

\* beInSomeWiseEx
beInSomeWiseEx(C, wiseType) ==
    LET cur == whichWiseEx(C)
    IN  IF cur # NoneWise /\ cur # wiseType THEN Reverse(C) ELSE C

\* The cross product locationEx takes for edge i and point p.
EdgeCross(C, i, p) == cmul(VecSub(C[NextIdx(C, i)], C[i]), VecSub(p, C[i]))

RECURSIVE locationFrom(_, _, _, _)
locationFrom(C, p, i, onLine) ==
    IF i > Len(C) THEN (IF onLine THEN OnLine ELSE InSide)
    ELSE LET c == EdgeCross(C, i, p)
         IN  IF GtZero(c) THEN OutSide
             ELSE locationFrom(C, p, i + 1, onLine \/ AbsLeZero(c))

\* locationEx, for C in clockwise order.
locationEx(C, p) == locationFrom(C, p, 1, FALSE)

RECURSIVE interPtsFrom(_, _, _, _)
interPtsFrom(C, line, i, pts) ==
    IF i > Len(C) THEN pts
    ELSE LET r == intersection(line, Edge(C, i))
         IN  interPtsFrom(C, line, i + 1,
                          IF r.on /\ ~Contains(pts, r.pt) THEN Append(pts, r.pt) ELSE pts)

\* interPtsEx: the points of line on the edges of C, added to pts.
interPtsEx(C, line, pts) == interPtsFrom(C, line, 1, pts)

(***************************************************************************)
(* class Quad: the four vertices p1..p4 (aliased by vert[4]) are the       *)
(* sequence <<p1, p2, p3, p4>>.                                            *)
(***************************************************************************)
\* Quad::flip
flipWrongPair(Q) == <<Q[1], Q[3], Q[2], Q[4]>>

flip(Q) == <<Q[1], Q[4], Q[3], Q[2]>>

\* Quad::getVertList
getVertList(Q) == Q

\* Quad::area, Quad::whichWise, Quad::location, Quad::interPts
QuadArea(Q) == areaEx(getVertList(Q))
QuadWhichWise(Q) == whichWiseEx(getVertList(Q))
QuadLocation(Q, p) == locationEx(getVertList(Q), p)
QuadInterPts(Q, line, pts) == interPtsEx(getVertList(Q), line, pts)

\* Quad::beInSomeWise
QuadBeInSomeWise(Q, wiseType) ==
    LET cur == QuadWhichWise(Q)
    IN  IF cur # NoneWise /\ cur # wiseType THEN flip(Q) ELSE Q

(***************************************************************************)
(* The intersection of two convex polygons.                                *)
(***************************************************************************)
RECURSIVE innerFrom(_, _, _, _)
innerFrom(A, B, i, pts) ==
    IF i > Len(A) THEN pts
    ELSE innerFrom(A, B, i + 1,
                   IF locationEx(B, A[i]) # OutSide /\ ~Contains(pts, A[i])
                   THEN Append(pts, A[i]) ELSE pts)

\* findInnerPointsEx: the vertices of each polygon in or on the other.
findInnerPointsEx(A, B) == innerFrom(B, A, 1, innerFrom(A, B, 1, <<>>))

RECURSIVE interFrom(_, _, _, _)
interFrom(A, B, i, pts) ==
    IF i > Len(A) THEN pts
    ELSE interFrom(A, B, i + 1, interPtsEx(B, Edge(A, i), pts))

\* findInterPointsEx: where the edges of A cross the edges of B.
findInterPointsEx(A, B) == interFrom(A, B, 1, <<>>)

RECURSIVE SumFrom(_, _)
SumFrom(pts, i) ==
    IF i > Len(pts) THEN Vec2(R(0), R(0)) ELSE VecAdd(pts[i], SumFrom(pts, i + 1))

\* The arithmetic mean of the points.
Centroid(pts) == VecDiv(SumFrom(pts, 1), R(Len(pts)))

\* The ways a sort by ascending key can leave the indices of S.  A key that
\* is NaN compares false with everything: the comparator is then no strict
\* weak order and the sort may leave any order at all.
RECURSIVE SortOutcomes(_, _)
SortOutcomes(key, S) ==
    IF S = {} THEN {<<>>}
    ELSE LET anyNaN == \E j \in DOMAIN key : IsNaN(key[j])
             first == {i \in S : anyNaN \/ ~\E j \in S : RLt(key[j], key[i])}
         IN  UNION {{<<i>> \o rest : rest \in SortOutcomes(key, S \ {i})} : i \in first}

\* The candidate points in each order the sort by theta about the centroid
\* can give.
SortedByTheta(pts) ==
    LET c == Centroid(pts)
        key == [i \in 1..Len(pts) |-> theta(VecSub(pts[i], c))]
    IN  {[k \in 1..Len(pts) |-> pts[o[k]]] : o \in SortOutcomes(key, 1..Len(pts))}

\* The candidate set: inner vertices, then edge crossings, without repeats.
Candidates(A, B) == Merge(findInnerPointsEx(A, B), findInterPointsEx(A, B))

\* areaIntersectionEx: every value the call can return.
areaIntersectionEx(A, B) ==
    LET pts == Candidates(A, B)
    IN  IF Len(pts) < 3 THEN {R(0)}
        ELSE {areaEx(s) : s \in SortedByTheta(pts)}

\* areaUnionEx, given the intersection area.
unionOf(A, B, inter) == RSub(RAdd(areaEx(A), areaEx(B)), inter)

areaUnionEx(A, B) == {unionOf(A, B, inter) : inter \in areaIntersectionEx(A, B)}

\* iouEx: the quotient; 0.0 / 0.0 is NaN.
iouEx(A, B) == {RDiv(inter, unionOf(A, B, inter)) : inter \in areaIntersectionEx(A, B)}

(***************************************************************************)
(* The caller holds a Quad Q1 and a vertex list C2, both built from raw    *)
(* coordinates, and calls the library on them, one call at a time.  last   *)
(* is the call that has just returned: its name, its arguments, Q1 and C2  *)
(* as they were when it was made, and its result; Idle between calls.      *)
(***************************************************************************)
P(x, y) == Vec2(R(x), R(y))

\* The quadrilaterals the caller builds, each listed in clockwise order as
\* class Quad documents: squares of side 1, 2 and 4, a diamond, a
\* parallelogram, a kite, a square away from the others, a right triangle
\* with a flat fourth vertex, and two without area (colinear vertices).
Quads ==
    << <<P(0, 0), P(0, 1), P(1, 1), P(1, 0)>>,
       <<P(0, 0), P(0, 2), P(2, 2), P(2, 0)>>,
       <<P(0, 0), P(0, 4), P(4, 4), P(4, 0)>>,
       <<P(1, 0), P(0, 1), P(1, 2), P(2, 1)>>,
       <<P(0, 0), P(1, 2), P(3, 2), P(2, 0)>>,
       <<P(0, 1), P(1, 3), P(2, 1), P(1, 0)>>,
       <<P(3, 3), P(3, 4), P(4, 4), P(4, 3)>>,
       <<P(0, 0), P(0, 1), P(0, 2), P(2, 0)>>,
       <<P(0, 0), P(1, 0), P(2, 0), P(3, 0)>>,
       <<P(0, 0), P(1, 1), P(0, 0), P(1, 1)>> >>

\* The vertex lists the caller builds: the same, and two triangles.
Lists ==
    Quads \o << <<P(0, 0), P(0, 3), P(2, 0)>>,
                <<P(0, 0), P(1, 2), P(2, 1)>> >>

\* C2 is placed at an offset of 0..MaxShift along each axis.
MaxShift == 1

Translate(C, dx, dy) == [i \in 1..Len(C) |-> VecAdd(C[i], P(dx, dy))]

\* The points and segments the caller asks about.
ProbePoints == {P(x, y) : x, y \in 0..(MaxShift + 1)}
ProbeLines == {Line(P(0, 1), P(MaxShift + 2, 1)), Line(P(1, 0), P(2, MaxShift + 2))}

Idle == [op |-> "none", arg |-> <<>>, q1 |-> <<>>, c2 |-> <<>>, res |-> <<>>]

Init ==
    /\ Q1 \in {Quads[i] : i \in DOMAIN Quads}
    /\ \E i \in DOMAIN Lists, dx, dy \in 0..MaxShift : C2 = Translate(Lists[i], dx, dy)
    /\ last = Idle

Returned(op, arg, res) == [op |-> op, arg |-> arg, q1 |-> Q1, c2 |-> C2, res |-> res]

(***************************************************************************)
(* Calls that reorder a polygon in place.                                  *)
(***************************************************************************)
\* Quad::flip
CallFlip ==
    /\ last = Idle
    /\ Q1' = flip(Q1)
    /\ last' = Returned("flip", <<>>, <<>>)
    /\ UNCHANGED C2

\* Quad::beInSomeWise (beInClockWise, beInAntiClockWise)
CallBeInSomeWise(w) ==
    /\ last = Idle
    /\ Q1' = QuadBeInSomeWise(Q1, w)
    /\ last' = Returned("beInSomeWise", w, <<>>)
    /\ UNCHANGED C2

\* beInSomeWiseEx(Vertexes &C, const WiseType)
CallBeInSomeWiseEx(w) ==
    /\ last = Idle
    /\ C2' = beInSomeWiseEx(C2, w)
    /\ last' = Returned("beInSomeWiseEx", w, <<>>)
    /\ UNCHANGED Q1

(***************************************************************************)
(* Calls on const arguments (const member functions of Quad, const         *)
(* Vertexes & and const Quad & parameters).                                *)
(***************************************************************************)
QueryNormalising(op, arg, res) ==
    /\ last = Idle
    /\ last' = Returned(op, arg, res)
    /\ Q1' = QuadBeInSomeWise(Q1, ClockWise)
    /\ C2' = beInSomeWiseEx(C2, ClockWise)

Query(op, arg, res) ==
    /\ last = Idle
    /\ last' = Returned(op, arg, res)
    /\ UNCHANGED <<Q1, C2>>

\* Quad::area, Quad::whichWise, Quad::location, Quad::interPts
CallArea == Query("area", <<>>, QuadArea(Q1))
CallWhichWise == Query("whichWise", <<>>, QuadWhichWise(Q1))
CallLocation(p) == Query("location", p, QuadLocation(Q1, p))
CallInterPts(line) == Query("interPts", line, QuadInterPts(Q1, line, <<>>))

\* areaEx, whichWiseEx, locationEx, interPtsEx
CallAreaEx == Query("areaEx", <<>>, areaEx(C2))
CallWhichWiseEx == Query("whichWiseEx", <<>>, whichWiseEx(C2))
CallLocationEx(p) == Query("locationEx", p, locationEx(C2, p))
CallInterPtsEx(line) == Query("interPtsEx", line, interPtsEx(C2, line, <<>>))

\* The two polygons as the arguments of a call on a pair, in the order
\* (Q1, C2) when fwd and (C2, Q1) otherwise.
ArgA(fwd) == IF fwd THEN getVertList(Q1) ELSE C2
ArgB(fwd) == IF fwd THEN C2 ELSE getVertList(Q1)

\* findInnerPointsEx, findInterPointsEx
CallFindInnerPointsEx(fwd) ==
    Query("findInnerPointsEx", fwd, findInnerPointsEx(ArgA(fwd), ArgB(fwd)))

CallFindInterPointsEx(fwd) ==
    Query("findInterPointsEx", fwd, findInterPointsEx(ArgA(fwd), ArgB(fwd)))

\* areaIntersectionEx, areaUnionEx, iouEx
CallAreaIntersectionEx(fwd) ==
    /\ last = Idle
    /\ \E r \in areaIntersectionEx(ArgA(fwd), ArgB(fwd)) : Query("areaIntersectionEx", fwd, r)

CallAreaUnionEx(fwd) ==
    /\ last = Idle
    /\ \E r \in areaUnionEx(ArgA(fwd), ArgB(fwd)) : Query("areaUnionEx", fwd, r)

CallIouEx(fwd) ==
    /\ last = Idle
    /\ \E r \in iouEx(ArgA(fwd), ArgB(fwd)) : Query("iouEx", fwd, r)

\* The caller takes the result and goes on.
Resume ==
    /\ last # Idle
    /\ last' = Idle
    /\ UNCHANGED <<Q1, C2>>

Next ==
    \/ CallFlip
    \/ \E w \in {ClockWise, AntiClockWise} : CallBeInSomeWise(w)
    \/ \E w \in {ClockWise, AntiClockWise} : CallBeInSomeWiseEx(w)
    \/ CallArea
    \/ CallWhichWise
    \/ \E p \in ProbePoints : CallLocation(p)
    \/ \E line \in ProbeLines : CallInterPts(line)
    \/ CallAreaEx
    \/ CallWhichWiseEx
    \/ \E p \in ProbePoints : CallLocationEx(p)
    \/ \E line \in ProbeLines : CallInterPtsEx(line)
    \/ \E fwd \in BOOLEAN : CallFindInnerPointsEx(fwd)
    \/ \E fwd \in BOOLEAN : CallFindInterPointsEx(fwd)
    \/ \E fwd \in BOOLEAN : CallAreaIntersectionEx(fwd)
    \/ \E fwd \in BOOLEAN : CallAreaUnionEx(fwd)
    \/ \E fwd \in BOOLEAN : CallIouEx(fwd)
    \/ Resume

Spec == Init /\ [][Next]_vars
(***************************************************************************)
(* Plane geometry the properties are stated in, written out from the       *)
(* coordinates and exact (no tolerance).                                   *)
(***************************************************************************)
Zero == R(0)

\* The z component of (b - a) x (p - a): negative when p is on the right of
\* the directed line from a to b.
Side(a, b, p) ==
    RSub(RMul(RSub(b.x, a.x), RSub(p.y, a.y)), RMul(RSub(b.y, a.y), RSub(p.x, a.x)))

RECURSIVE TwiceAreaFrom(_, _)
TwiceAreaFrom(C, i) ==
    IF i > Len(C) THEN Zero
    ELSE RAdd(RSub(RMul(C[i].x, C[NextIdx(C, i)].y), RMul(C[NextIdx(C, i)].x, C[i].y)),
              TwiceAreaFrom(C, i + 1))

\* The area enclosed by the closed path C.
TrueArea(C) == RDiv(RAbs(TwiceAreaFrom(C, 1)), R(2))

\* C is a convex polygon with area, listed clockwise: it never turns left.
ConvexClockWise(C) ==
    /\ Len(C) >= 3
    /\ RLt(TwiceAreaFrom(C, 1), Zero)
    /\ \A i \in 1..Len(C) : RLe(Side(C[i], C[NextIdx(C, i)], C[NextIdx(C, NextIdx(C, i))]), Zero)

\* p is in the closed region of the convex clockwise polygon C.
Within(C, p) == \A i \in 1..Len(C) : RLe(Side(C[i], C[NextIdx(C, i)], p), Zero)

\* Every point of B is in the closed region of A.
Encloses(A, B) == \A j \in 1..Len(B) : Within(A, B[j])

\* An edge of A has all of B on its outer side (or on it).
EdgeSeparates(A, B) ==
    \E i \in 1..Len(A) : \A j \in 1..Len(B) : RLe(Zero, Side(A[i], A[NextIdx(A, i)], B[j]))

\* Two convex clockwise polygons share no area exactly when an edge of one
\* of them separates them.
ShareNoArea(A, B) == EdgeSeparates(A, B) \/ EdgeSeparates(B, A)

\* The part of the closed path S on the inner (right) side of the directed
\* line from a to b, vertex by vertex: a vertex on the inner side is kept and
\* an edge that changes side contributes the point where it meets the line.
RECURSIVE ClipFrom(_, _, _, _)
ClipFrom(S, a, b, i) ==
    IF i > Len(S) THEN <<>>
    ELSE LET cur == S[i]
             nxt == S[NextIdx(S, i)]
             sc == Side(a, b, cur)
             sn == Side(a, b, nxt)
             curIn == RLe(sc, Zero)
             nxtIn == RLe(sn, Zero)
             t == RDiv(sc, RSub(sc, sn))
             x == Vec2(RAdd(cur.x, RMul(t, RSub(nxt.x, cur.x))),
                       RAdd(cur.y, RMul(t, RSub(nxt.y, cur.y))))
         IN  (IF curIn THEN <<cur>> ELSE <<>>)
             \o (IF curIn # nxtIn THEN <<x>> ELSE <<>>)
             \o ClipFrom(S, a, b, i + 1)

RECURSIVE ClipBy(_, _, _)
ClipBy(S, K, i) ==
    IF i > Len(K) \/ Len(S) = 0 THEN S
    ELSE ClipBy(ClipFrom(S, K[i], K[NextIdx(K, i)], 1), K, i + 1)

\* The area common to polygon A and the convex clockwise polygon B, by
\* clipping A with the half plane of each edge of B in turn.
TrueIntersectionArea(A, B) ==
    LET S == ClipBy(A, B, 1) IN IF Len(S) < 3 THEN Zero ELSE TrueArea(S)

\* The arguments of the pair call that last returned.
LastA == IF last.arg THEN last.q1 ELSE last.c2
LastB == IF last.arg THEN last.c2 ELSE last.q1

PairOps == {"findInnerPointsEx", "findInterPointsEx", "areaIntersectionEx",
            "areaUnionEx", "iouEx"}
ReorderOps == {"flip", "beInSomeWise", "beInSomeWiseEx"}

\* Both arguments of the pair call that last returned are convex polygons
\* with area in clockwise order, as the intersection algorithm requires.
PairNormalized ==
    /\ last.op \in PairOps
    /\ ConvexClockWise(LastA)
    /\ ConvexClockWise(LastB)

(***************************************************************************)
(* C1: for convex polygons P and Q in clockwise order, iouEx(P, Q) is      *)
(* iouEx(Q, P), and so are areaIntersectionEx and areaUnionEx: the call    *)
(* with the arguments swapped can return the returned value and no other.  *)
(***************************************************************************)
C1_IouSymmetric ==
    PairNormalized =>
        /\ last.op = "iouEx" => iouEx(LastB, LastA) = {last.res}
        /\ last.op = "areaIntersectionEx" => areaIntersectionEx(LastB, LastA) = {last.res}
        /\ last.op = "areaUnionEx" => areaUnionEx(LastB, LastA) = {last.res}

C1_Witness ==
    /\ PairNormalized
    /\ last.op = "iouEx"
    /\ LastA # LastB
    /\ RLt(Zero, last.res)
    /\ RLt(last.res, R(1))

(***************************************************************************)
(* C2: for a convex clockwise polygon P with area, iouEx(P, P) is 1: every *)
(* edge of P is parallel to the same edge of the other operand, and the    *)
(* vertices of P alone give the intersection.                              *)
(***************************************************************************)
C2_IouSelfIsOne ==
    (PairNormalized /\ last.op = "iouEx" /\ LastA = LastB) => last.res = R(1)

C2_Witness ==
    /\ last.op = "iouEx"
    /\ last.q1 = last.c2
    /\ ConvexClockWise(last.q1)
    /\ last.res = R(1)
    /\ \A i \in 1..4 : ~intersection(Edge(last.q1, i), Edge(last.c2, i)).on

(***************************************************************************)
(* C3: for convex clockwise polygons P and Q that share no area (apart,    *)
(* or touching along an edge or at a vertex), areaIntersectionEx(P, Q) is  *)
(* 0 and iouEx(P, Q) is 0.                                                 *)
(***************************************************************************)
C3_DisjointIsZero ==
    (PairNormalized /\ ShareNoArea(LastA, LastB)) =>
        (last.op \in {"areaIntersectionEx", "iouEx"} => last.res = Zero)

\* Two polygons that touch (some vertex of one is on the other) and share
\* no area.
C3_Witness ==
    /\ PairNormalized
    /\ ShareNoArea(LastA, LastB)
    /\ last.op = "iouEx"
    /\ last.res = Zero
    /\ Len(findInnerPointsEx(LastA, LastB)) = 2

(***************************************************************************)
(* C4: when the convex clockwise polygon Q lies in the convex clockwise    *)
(* polygon P, areaIntersectionEx of the two (in either order) is the area  *)
(* of Q and iouEx is area(Q) / area(P).                                    *)
(***************************************************************************)
C4_ContainedIsInner ==
    PairNormalized =>
        \A pq \in {<<LastA, LastB>>, <<LastB, LastA>>} :
            Encloses(pq[1], pq[2]) =>
                /\ last.op = "areaIntersectionEx" => last.res = TrueArea(pq[2])
                /\ last.op = "iouEx" => last.res = RDiv(TrueArea(pq[2]), TrueArea(pq[1]))

\* A polygon strictly inside another: no vertex of the inner one is on the
\* outer one's boundary.
C4_Witness ==
    /\ PairNormalized
    /\ last.op = "iouEx"
    /\ Encloses(LastA, LastB)
    /\ \A j \in 1..Len(LastB) : locationEx(LastA, LastB[j]) = InSide
    /\ RLt(last.res, R(1))
    /\ last.res = RDiv(TrueArea(LastB), TrueArea(LastA))

(***************************************************************************)
(* C5: the area of a polygon is never negative and is the same for the     *)
(* polygon and for its vertices in reverse order; the area of a Quad is    *)
(* the same before and after flip().                                       *)
(***************************************************************************)
C5_AreaNonNegativeWindingFree ==
    /\ RLe(Zero, areaEx(C2))
    /\ RLe(Zero, QuadArea(Q1))
    /\ areaEx(Reverse(C2)) = areaEx(C2)
    /\ last.op \in {"area", "areaEx"} => RLe(Zero, last.res)
    /\ last.op \in {"flip", "beInSomeWise"} => QuadArea(Q1) = QuadArea(last.q1)
    /\ last.op = "beInSomeWiseEx" => areaEx(C2) = areaEx(last.c2)

C5_Witness ==
    /\ last.op = "flip"
    /\ Q1 # last.q1
    /\ RLt(Zero, QuadArea(Q1))
    /\ QuadArea(Q1) = QuadArea(last.q1)

(***************************************************************************)
(* C6: after beInSomeWise(w) or beInSomeWiseEx(w), w clockwise or          *)
(* anticlockwise, a polygon that had a winding has winding w, and a        *)
(* polygon without one (NoneWise) is as it was.  A Quad is reordered by    *)
(* swapping p2 and p4, a vertex list by reversal.                          *)
(***************************************************************************)
C6_NormalizedHasTargetWinding ==
    /\ last.op = "beInSomeWise" =>
        IF whichWiseEx(last.q1) = NoneWise
        THEN Q1 = last.q1 /\ whichWiseEx(Q1) = NoneWise
        ELSE /\ whichWiseEx(Q1) = last.arg
             /\ Q1 \in {last.q1, <<last.q1[1], last.q1[4], last.q1[3], last.q1[2]>>}
    /\ last.op = "beInSomeWiseEx" =>
        IF whichWiseEx(last.c2) = NoneWise
        THEN C2 = last.c2 /\ whichWiseEx(C2) = NoneWise
        ELSE /\ whichWiseEx(C2) = last.arg
             /\ C2 \in {last.c2, Reverse(last.c2)}

C6_Witness ==
    /\ last.op = "beInSomeWise"
    /\ whichWiseEx(last.q1) = ClockWise
    /\ last.arg = AntiClockWise
    /\ whichWiseEx(Q1) = AntiClockWise
    /\ Q1 # last.q1

(***************************************************************************)
(* C7: when the union area of P and Q is zero, iouEx(P, Q) does not return *)
(* the result of a division by zero.                                       *)
(***************************************************************************)
C7_ZeroUnionIsSignalled ==
    (last.op = "iouEx" /\ areaUnionEx(LastA, LastB) = {Zero}) => ~IsNaN(last.res)

(***************************************************************************)
(* C8: a call other than beInSomeWise, beInSomeWiseEx and flip leaves both *)
(* polygons of the caller as they were.                                    *)
(***************************************************************************)
C8_QueriesLeavePolygons ==
    [][last'.op \notin ReorderOps => (Q1' = Q1 /\ C2' = C2)]_vars

C8_Witness ==
    /\ last.op = "iouEx"
    /\ Q1 = last.q1
    /\ C2 = last.c2
    /\ whichWiseEx(C2) = AntiClockWise

(***************************************************************************)
(* C9: for convex clockwise polygons, when the candidate set (inner        *)
(* vertices and edge crossings, without repeats) has at least 3 points,    *)
(* the area of the candidates sorted by theta about their mean is the area *)
(* of the geometric intersection.                                          *)
(***************************************************************************)
C9_AngularSortGivesIntersection ==
    (/\ PairNormalized
     /\ last.op = "areaIntersectionEx"
     /\ Len(Candidates(LastA, LastB)) >= 3)
        => last.res = TrueIntersectionArea(LastA, LastB)

\* An intersection with more than four corners, some of them edge crossings.
C9_Witness ==
    /\ PairNormalized
    /\ last.op = "areaIntersectionEx"
    /\ Len(Candidates(LastA, LastB)) >= 5
    /\ Len(findInterPointsEx(LastA, LastB)) >= 2
    /\ RLt(Zero, last.res)
    /\ last.res = TrueIntersectionArea(LastA, LastB)

(***************************************************************************)
(* C10: for a convex clockwise polygon and a point p, location /           *)
(* locationEx is OutSide exactly when (v[i+1] - v[i]) x (p - v[i]) is      *)
(* above _ZERO_ for some edge, InSide exactly when it is below -_ZERO_ for  *)
(* every edge, and OnLine exactly when it is above _ZERO_ for none and      *)
(* within _ZERO_ of 0 for some.                                             *)
(***************************************************************************)
C10_LocationBySideOfEdges ==
    \A C \in {last.q1, last.c2} :
        (/\ \/ last.op = "location" /\ C = last.q1
            \/ last.op = "locationEx" /\ C = last.c2
         /\ ConvexClockWise(C))
        => LET s(i) == Side(C[i], C[NextIdx(C, i)], last.arg)
               E == 1..Len(C)
           IN  /\ last.res \in LocPosition
               /\ last.res = OutSide <=> \E i \in E : GtZero(s(i))
               /\ last.res = InSide <=> \A i \in E : LtNegZero(s(i))
               /\ last.res = OnLine <=>
                    (~(\E i \in E : GtZero(s(i))) /\ \E i \in E : AbsLeZero(s(i)))

C10_Witness ==
    /\ last.op = "locationEx"
    /\ ConvexClockWise(last.c2)
    /\ last.res = OnLine
    /\ \E i \in 1..Len(last.c2) :
         LtNegZero(Side(last.c2[i], last.c2[NextIdx(last.c2, i)], last.arg))

====
